---- MODULE Spec2Model ----
(***************************************************************************)
(* The CSV reconciliation batch of src/app/main.py: main() reads one CSV   *)
(* file per entity, validates it in bulk, and for every row writes a raw   *)
(* archive record and, when the row validates, upserts it into the         *)
(* canonical table; errors are accumulated by errorHandler and saved once  *)
(* at the end.                                                             *)
(*                                                                         *)
(* The relational store, pandas and pandera are external collaborators:    *)
(* a statement of the store either succeeds or raises (chosen by \E), the  *)
(* tables main() reflects exist and the store accepts connections.         *)
(***************************************************************************)
EXTENDS Integers, Sequences, FiniteSets, TLC

(* ------------------------------ bounds -------------------------------- *)

\* Most data rows in the CSV files of one execution, all files together.
MaxRows == 2

\* Most faults of the store over the whole behaviour; a statement the store
\* rejected in the first execution and rejects again in the second is one fault.
MaxFaults == 1

(* ------------------------- program constants -------------------------- *)

\* errorRecord.timestamp's default is evaluated once, when the class body
\* runs at import, before main() starts the clock: the value it has in the
\* first execution of the script.
ClassDefTime == 0

\* The order of table_schemas.items().
Entities == <<"products", "orders">>

Col(n, t, nullable) == [name |-> n, type |-> t, nullable |-> nullable, coerce |-> FALSE, pattern |-> FALSE]

\* get_table_schemas(): per entity the declared columns, in order, and the
\* unique constraint.
get_table_schemas ==
    [ products |->
        [ name    |-> "products",
          columns |-> << Col("productid", "str", FALSE),
                         Col("name", "str", FALSE),
                         Col("quantity", "int", FALSE),
                         Col("category", "str", FALSE),
                         Col("subcategory", "str", FALSE) >>,
          unique  |-> "productid" ],
      orders |->
        [ name    |-> "orders",
          columns |-> << Col("orderid", "str", FALSE),
                         Col("productid", "str", FALSE),
                         Col("currency", "str", FALSE),
                         Col("quantity", "int", FALSE),
                         Col("shippingcost", "float", FALSE),
                         Col("amount", "float", FALSE),
                         Col("channel", "str", FALSE),
                         Col("channelgroup", "str", FALSE),
                         Col("campaign", "str", TRUE),
                         [ name |-> "datetime", type |-> "str", nullable |-> FALSE,
                           coerce |-> TRUE, pattern |-> TRUE ] >>,
          unique  |-> "orderid" ] ]

Range(s) == { s[i] : i \in DOMAIN s }

SchemaCols(schema) == { c.name : c \in Range(schema.columns) }

SchemaCol(schema, n) == CHOOSE c \in Range(schema.columns) : c.name = n

\* main(): products is read from inventory.csv, the others from <name>.csv.
FilePath(table_name) ==
    IF table_name = "products" THEN "source-data/inventory.csv"
    ELSE IF table_name = "orders" THEN "source-data/orders.csv"
    ELSE "source-data/?.csv"

\* f"raw_{table_name}"
RawName(table_name) ==
    IF table_name = "products" THEN "raw_products"
    ELSE IF table_name = "orders" THEN "raw_orders"
    ELSE "raw_?"

\* table.primary_key.columns.values()[0].name of the reflected canonical table.
PrimaryKey(table_name) == get_table_schemas[table_name].unique

(* ------------------------------ CSV files ----------------------------- *)

\* A CSV cell is a token: its lexical class and its text. An "empty" cell is
\* one pd.read_csv reads as a missing value, a "text" cell any other text
\* that is not a number.
Cell(lex, v) == [lex |-> lex, v |-> v]
I(v) == Cell("int", v)
F(v) == Cell("float", v)
T(v) == Cell("text", v)
E    == Cell("empty", "")

\* Candidate data rows of inventory.csv, cells in the declared column order.
ProductRows ==
    { << T("P1"), T("Widget"), I("10"),  T("A"), T("A1") >>,
      << T("P1"), T("Widget"), I("15"),  T("A"), T("A1") >>,
      << T("P2"), T("Gadget"), T("ten"), T("B"), T("B1") >>,
      << T("P3"), E,           I("7"),   T("B"), T("B1") >> }

\* Candidate data rows of orders.csv: a valid order, and an order without
\* shipping cost and without campaign whose datetime does not match the
\* pattern.
OrderRows ==
    { << T("O1"), T("P1"), T("SEK"), I("2"), F("5.0"), F("20.5"), T("web"), T("direct"),
         T("spring"), T("2024-01-01T00:00:00Z") >>,
      << T("O2"), T("P1"), T("SEK"), I("1"), E, F("9.5"), T("web"), T("direct"),
         E, T("yesterday") >> }

CandidateRows(table_name) == IF table_name = "products" THEN ProductRows ELSE OrderRows

\* How the header of a file relates to the declared columns.
Layouts == {"declared", "extra"}

Upper(n) ==
    CASE n = "productid"    -> "ProductID"
      [] n = "name"         -> "Name"
      [] n = "quantity"     -> "Quantity"
      [] n = "category"     -> "Category"
      [] n = "subcategory"  -> "SubCategory"
      [] n = "orderid"      -> "OrderID"
      [] n = "currency"     -> "Currency"
      [] n = "shippingcost" -> "ShippingCost"
      [] n = "amount"       -> "Amount"
      [] n = "channel"      -> "Channel"
      [] n = "channelgroup" -> "ChannelGroup"
      [] n = "campaign"     -> "Campaign"
      [] n = "datetime"     -> "DateTime"
      [] n = "note"         -> "Note"
      [] OTHER              -> n

\* str.lower() on the column names above.
Lower(n) ==
    CASE n = "ProductID"    -> "productid"
      [] n = "Name"         -> "name"
      [] n = "Quantity"     -> "quantity"
      [] n = "Category"     -> "category"
      [] n = "SubCategory"  -> "subcategory"
      [] n = "OrderID"      -> "orderid"
      [] n = "Currency"     -> "currency"
      [] n = "ShippingCost" -> "shippingcost"
      [] n = "Amount"       -> "amount"
      [] n = "Channel"      -> "channel"
      [] n = "ChannelGroup" -> "channelgroup"
      [] n = "Campaign"     -> "campaign"
      [] n = "DateTime"     -> "datetime"
      [] n = "Note"         -> "note"
      [] OTHER              -> n

DeclaredHeader(table_name) ==
    [ j \in DOMAIN get_table_schemas[table_name].columns |->
        get_table_schemas[table_name].columns[j].name ]

\* The header line of a file: inventory.csv names its columns in lower case,
\* orders.csv capitalises them; an "extra" file has one more column.
FileHeader(table_name) ==
    IF table_name = "orders"
    THEN [ j \in DOMAIN DeclaredHeader(table_name) |-> Upper(DeclaredHeader(table_name)[j]) ]
    ELSE DeclaredHeader(table_name)

Header(table_name, layout) ==
    IF layout = "extra" THEN Append(FileHeader(table_name), "Note")
    ELSE FileHeader(table_name)

\* The data line of a file: in an "extra" file one more cell, a text that is
\* not one of the strings pandas reads as a missing value.
LayoutRow(cells, layout) == IF layout = "extra" THEN Append(cells, T("memo")) ELSE cells

SeqsUpTo(S, n) == UNION { [1..k -> S] : k \in 1..n }

\* The files an entity's path can hold: "missing" (no such file), "blank"
\* (zero bytes), or text with a header line and 0..n data rows.
Files(table_name, n) ==
    { [status |-> st, header |-> <<>>, rows |-> <<>>] : st \in {"missing", "blank"} }
    \cup
    { [status |-> "text", header |-> Header(table_name, "declared"), rows |-> <<>>] }
    \cup
    { [status |-> "text", header |-> Header(table_name, l[1]),
       rows |-> [ i \in DOMAIN l[2] |-> LayoutRow(l[2][i], l[1]) ]] :
         l \in Layouts \X SeqsUpTo(CandidateRows(table_name), n) }

(* ----------------------------- pd.read_csv ---------------------------- *)

Val(t, v) == [t |-> t, v |-> v]
NaN  == Val("float", "nan")
None == Val("NoneType", "None")

\* pd.isnull(value)
isnull(val) == val \in {NaN, None}

\* The dtype pandas infers for a column from its cells: int64 when every
\* cell is an integer literal, float64 when every cell is numeric or empty,
\* object otherwise.
ColumnDtype(cells) ==
    IF \A c \in cells : c.lex = "int" THEN "int64"
    ELSE IF \A c \in cells : c.lex \in {"int", "float", "empty"} THEN "float64"
    ELSE "object"

\* The Python value itertuples() yields for a cell of a column of dtype d.
Parse(cell, d) ==
    CASE cell.lex = "empty" -> NaN
      [] d = "int64"        -> Val("int", cell.v)
      [] d = "float64"      -> Val("float", cell.v)
      [] OTHER              -> Val("str", cell.v)

ColumnCells(rows, j) == { rows[i][j] : i \in DOMAIN rows }

\* pd.read_csv(file_path, index_col=False) on a file that parses.
ParseCsv(file) ==
    [ columns |-> file.header,
      rows    |-> [ i \in DOMAIN file.rows |->
                     [ j \in DOMAIN file.header |->
                         Parse(file.rows[i][j], ColumnDtype(ColumnCells(file.rows, j))) ] ] ]

EmptyDataFrame == [columns |-> <<>>, rows |-> <<>>]

\* pd.read_csv raises on a missing file and on a file without a header line.
ReadRaises(file) == file.status \in {"missing", "blank"}

\* df.columns = [col.lower() for col in df.columns]
LowerColumns(df) == [df EXCEPT !.columns = [ j \in DOMAIN df.columns |-> Lower(df.columns[j]) ]]

\* df.where(pd.notnull(df), None): None replaces NaN in object columns; a
\* float64 column cannot hold None and keeps NaN.
IsObjectColumn(df, j) == \E i \in DOMAIN df.rows : df.rows[i][j].t = "str"

WhereNotnull(df) ==
    [df EXCEPT !.rows = [ i \in DOMAIN df.rows |->
        [ j \in DOMAIN df.columns |->
            IF isnull(df.rows[i][j]) /\ IsObjectColumn(df, j) THEN None ELSE df.rows[i][j] ] ]]

(* --------------------------- schema validation ------------------------ *)

ColIndex(df, n) == CHOOSE j \in DOMAIN df.columns : df.columns[j] = n

\* The dtype of a loaded column, read back from its values.
DfDtype(df, j) ==
    IF \A i \in DOMAIN df.rows : df.rows[i][j].t = "int" THEN "int64"
    ELSE IF \E i \in DOMAIN df.rows : df.rows[i][j].t = "str" THEN "object"
    ELSE "float64"

\* Whether a text matches \d{4}-\d{2}-\d{2}T\d{2}:\d{2}:\d{2}Z.
StrMatches(v) == v \in {"2024-01-01T00:00:00Z"}

\* The numpy dtype pandera checks a column of declared type t against.
SchemaDtype(t) ==
    CASE t = "int"   -> "int64"
      [] t = "float" -> "float64"
      [] OTHER       -> "object"

ColumnChecks == <<"column_in_dataframe", "dtype", "not_nullable", "str_matches">>

\* Whether check k of pandera fails for declared column c on df.
CheckFails(df, c, k) ==
    IF c.name \notin Range(df.columns)
    THEN k = "column_in_dataframe"
    ELSE LET j == ColIndex(df, c.name) IN
         CASE k = "dtype" ->
                ~c.coerce /\ DfDtype(df, j) # SchemaDtype(c.type)
           [] k = "not_nullable" ->
                ~c.nullable /\ \E i \in DOMAIN df.rows : isnull(df.rows[i][j])
           [] k = "str_matches" ->
                c.pattern /\ \E i \in DOMAIN df.rows :
                    ~isnull(df.rows[i][j]) /\ ~StrMatches(df.rows[i][j].v)
           [] OTHER -> FALSE

\* unique=[key]: two rows of df hold the same value in the key column.
UniqueFails(df, schema) ==
    /\ schema.unique \in Range(df.columns)
    /\ LET j == ColIndex(df, schema.unique) IN
       \E i1, i2 \in DOMAIN df.rows : i1 < i2 /\ df.rows[i1][j] = df.rows[i2][j]

\* The failure cases schema.validate(df, lazy=True) collects, in schema order.
SchemaErrors(df, schema) ==
    LET n  == Len(schema.columns)
        m  == Len(ColumnChecks)
        at == [ k \in 1..(n * m) |->
                  [ col |-> schema.columns[((k - 1) \div m) + 1].name,
                    val |-> Val("check", ColumnChecks[((k - 1) % m) + 1]) ] ]
        bad(f) == CheckFails(df, SchemaCol(schema, f.col), f.val.v)
    IN  SelectSeq(at, bad)
        \o (IF UniqueFails(df, schema)
            THEN << [col |-> schema.unique, val |-> Val("check", "unique")] >>
            ELSE << >>)

\* coerce=True with inplace=True: the values of a coerced column become str.
CoerceColumns(df, schema) ==
    [df EXCEPT !.rows = [ i \in DOMAIN df.rows |->
        [ j \in DOMAIN df.columns |->
            IF /\ df.columns[j] \in SchemaCols(schema)
               /\ SchemaCol(schema, df.columns[j]).coerce
               /\ ~isnull(df.rows[i][j])
            THEN Val("str", df.rows[i][j].v)
            ELSE df.rows[i][j] ] ]]

\* schema_column_type.__eq__(type(col_value)): numpy converts the Python type
\* to a dtype (str, int, float to themselves, any other class to object).
DtypeEq(t, pytype) == pytype \in {"str", "int", "float"} /\ t = pytype

\* validate_row_data raises KeyError at table_schema.dtypes[col_name] when the
\* row has a column the schema does not declare.
RowKeyError(columns, schema) == \E j \in DOMAIN columns : columns[j] \notin SchemaCols(schema)

ValueOk(schema, n, val) ==
    \/ isnull(val) /\ SchemaCol(schema, n).nullable
    \/ DtypeEq(SchemaCol(schema, n).type, val.t)

\* error_fields of validate_row_data: the (column, value) pairs that are
\* neither null-and-optional nor of the declared type, in column order.
ErrorFields(columns, row, schema) ==
    LET at     == [ j \in DOMAIN columns |-> [col |-> columns[j], val |-> row[j]] ]
        bad(f) == ~ValueOk(schema, f.col, f.val)
    IN  SelectSeq(at, bad)

(* ------------------------------- the store ---------------------------- *)

\* row._asdict(): the row as a mapping from column name to value.
AsDict(columns, row) == [ n \in Range(columns) |-> row[ColIndex([columns |-> columns], n)] ]

\* Mutant: on_conflict_do_nothing, the record already there is kept.
OnConflictDoNothing(old, row_data) == old

\* Mutant: the conflicting upsert adds the incoming quantity to the stored one.
OnConflictAccumulate(old, row_data) ==
    [ n \in DOMAIN old \cup DOMAIN row_data |->
        IF n = "quantity" THEN Val("int", "sum")
        ELSE IF n \in DOMAIN row_data THEN row_data[n] ELSE old[n] ]

\* The record a conflicting upsert leaves: set_=update_fields overwrites the
\* columns of the incoming row and keeps the others.
OnConflictDoUpdate(old, row_data) ==
    [ n \in DOMAIN old \cup DOMAIN row_data |->
        IF n \in DOMAIN row_data THEN row_data[n] ELSE old[n] ]

\* insert(table).values(row_data).on_conflict_do_update(index_elements=[pk],
\* set_=update_fields) on a table held as a mapping from key to record.
UpsertStmt(tbl, primary_key, row_data) ==
    LET key == row_data[primary_key] IN
    IF key \in DOMAIN tbl
    THEN [tbl EXCEPT ![key] = OnConflictDoUpdate(@, row_data)]
    ELSE tbl @@ (key :> row_data)

EmptyTable == [ k \in {} |-> << >> ]

\* A products record the canonical table may hold before the run.
OldP1 ==
    (Val("str", "P1") :>
        [ productid |-> Val("str", "P1"), name |-> Val("str", "Widget"),
          quantity |-> Val("int", "3"), category |-> Val("str", "A"),
          subcategory |-> Val("str", "A1") ])

(* ------------------------------- state -------------------------------- *)

VARIABLES
    pc,            \* where main() is
    run,           \* 1 in the first execution of the script, 2 in the second
    exc,           \* the exception that left main(), "none" otherwise
    environ,       \* whether os.environ holds every variable the script reads
    ent,           \* index in Entities of the table being processed
    files,         \* the CSV file of each entity read so far
    df,            \* the DataFrame of the current entity
    idx,           \* index in df of the current row
    errors,        \* errorHandler.errors
    uuids,         \* how many uuid4() values were drawn
    now,           \* the clock
    raw,           \* raw_<entity> tables: committed (payload, timestamp) rows
    canonical,     \* <entity> tables: key -> record
    errors_table,  \* the errors table: committed error records
    reported,      \* whether the current execution logged its duration
    faults,        \* how many faults of the store have occurred
    events,        \* history: the steps taken, in order
    frames,        \* history: the DataFrame main() iterated, per entity
    snapshot,      \* history: the canonical tables when the first execution ended
    classdef       \* errorRecord.timestamp's default in the running process

vars == << pc, run, exc, environ, ent, files, df, idx, errors, uuids, now, raw, canonical,
           errors_table, reported, faults, events, frames, snapshot, classdef >>

table_name == Entities[ent]
table_schema == get_table_schemas[table_name]

Event(op, i, res) == [run |-> run, op |-> op, ent |-> ent, idx |-> i, res |-> res]

Message(text, arg, fields) == [text |-> text, arg |-> arg, fields |-> fields]

\* Mutant: the timestamp is taken when the record is created.
errorRecordStampedNow(recordid, recordtype, error) ==
    [ recordid |-> recordid, recordtype |-> recordtype, errors |-> error,
      timestamp |-> now ]

\* errorHandler.errorRecord(recordid, recordtype, error): the timestamp is the
\* class attribute's default, str(datetime.now()) of the moment the class
\* body ran in this process.
errorRecord(recordid, recordtype, error) ==
    [ recordid |-> recordid, recordtype |-> recordtype, errors |-> error,
      timestamp |-> classdef ]

no_error == UNCHANGED << errors, uuids >>

\* errorHandler.add_error with recordid = uuid4().
add_error(recordtype, error) ==
    /\ errors' = Append(errors, errorRecord(uuids + 1, recordtype, error))
    /\ uuids' = uuids + 1

Init ==
    /\ pc = "start"
    /\ run = 1
    /\ exc = "none"
    /\ environ \in BOOLEAN
    /\ ent = 0
    /\ files = << >>
    /\ df = EmptyDataFrame
    /\ idx = 0
    /\ errors = << >>
    /\ uuids = 0
    /\ now = 1
    /\ raw = [ n \in {"raw_products", "raw_orders"} |-> << >> ]
    /\ canonical \in { [products |-> t, orders |-> EmptyTable] : t \in {EmptyTable, OldP1} }
    /\ errors_table = << >>
    /\ reported = FALSE
    /\ faults = 0
    /\ events = << >>
    /\ frames = << >>
    /\ snapshot = [products |-> EmptyTable, orders |-> EmptyTable]
    /\ classdef = ClassDefTime

\* A statement of the store may fail while the fault budget lasts.
Outcomes(failures) == {"ok"} \cup (IF faults < MaxFaults THEN failures ELSE {})

Count(o) == faults' = faults + (IF o = "ok" THEN 0 ELSE 1)

\* Mutant: the KeyError of get_env_variables is swallowed and main() goes on
\* to save the errors.
MissingVariableSwallowed == "flush"

\* get_env_variables logs the missing variable and raises the KeyError again;
\* main() does not catch it.
MissingVariablePc == "raised"

\* main(), lines 33-44: the environment is read and the engine created; a
\* missing variable raises KeyError out of main().
Startup ==
    /\ pc = "start"
    /\ IF environ
       THEN pc' = "read" /\ ent' = 1 /\ exc' = exc
       ELSE /\ pc' = MissingVariablePc
            /\ ent' = ent
            /\ exc' = (IF MissingVariablePc = "raised" THEN "KeyError(environ)" ELSE exc)
    /\ now' = now + 1
    /\ UNCHANGED << run, environ, files, df, idx, errors, uuids, raw, canonical, errors_table,
                    reported, faults, events, frames, snapshot, classdef >>

\* The data rows of the files the first execution has read so far.
RowsRead ==
    LET n(e) == IF e \in DOMAIN files THEN Len(files[e].rows) ELSE 0
    IN  n("products") + n("orders")

\* The files read_csv can find at the path of the current entity: a path
\* read before holds the file it held then, whatever its size; a path read
\* for the first time holds any file within the bound on the rows.
FilesAtPath ==
    IF table_name \in DOMAIN files THEN { files[table_name] }
    ELSE Files(table_name, MaxRows - RowsRead)

\* read_csv(file_path, error_handler): the first execution finds some file at
\* the path, the second finds the same file.
ReadCsv ==
    /\ pc = "read"
    /\ \E file \in FilesAtPath :
         /\ files' = (table_name :> file) @@ files
         /\ IF ReadRaises(file)
            THEN /\ add_error(FilePath(table_name),
                              Message("Error reading CSV file", FilePath(table_name), << >>))
                 /\ df' = EmptyDataFrame
                 /\ events' = Append(events, Event("read", 0, "raised"))
            ELSE /\ no_error
                 /\ df' = ParseCsv(file)
                 /\ events' = Append(events, Event("read", 0, "ok"))
    /\ pc' = "check"
    /\ now' = now + 1
    /\ UNCHANGED << run, environ, exc, ent, idx, raw, canonical, errors_table, reported, faults,
                    frames, snapshot, classdef >>

\* Mutant: the loop body starts at the row validation, the archive write lost.
FirstRowStepSkipsArchive == "validate"

\* The first statement of the body of the loop over df.itertuples(): the
\* archive write.
FirstRowStep == "archive"

\* Mutant: the emptiness test looks at the columns, not at the rows.
IsEmptyNoColumns(d) == Len(d.columns) = 0

\* main(): len(df) == 0
IsEmpty(d) == Len(d.rows) = 0

\* Mutant: validate_row_data logs the error fields and returns True all the same.
RowIsValidAlways(error_fields) == TRUE

\* What validate_row_data returns for the error_fields it collected.
RowIsValid(error_fields) == error_fields = << >>

\* Mutant: the exception of save_errors is swallowed and main() goes on.
FlushFailureSwallowed == "report"

\* save_errors is called outside any try: its exception leaves main().
FlushFailurePc == "raised"

\* The end of the loop body over table_schemas.items().
NextEntity ==
    IF ent < Len(Entities)
    THEN pc' = "read" /\ ent' = ent + 1
    ELSE pc' = "flush" /\ ent' = ent

\* The end of the loop body over df.itertuples().
RowAfter(i) ==
    IF i < Len(df.rows)
    THEN pc' = FirstRowStep /\ idx' = i + 1 /\ ent' = ent
    ELSE idx' = i /\ NextEntity

NextRow == RowAfter(idx)

\* main(), lines 52-63: an empty DataFrame is logged and skipped; otherwise
\* the tables are reflected and the column names lower-cased.
CheckEmpty ==
    /\ pc = "check"
    /\ IF IsEmpty(df)
       THEN /\ add_error(table_name, Message("No data found in CSV file.", "", << >>))
            /\ events' = Append(events, Event("nodata", 0, "nodata"))
            /\ NextEntity
            /\ df' = df
       ELSE /\ no_error
            /\ df' = LowerColumns(df)
            /\ pc' = "bulk"
            /\ UNCHANGED << ent, events >>
    /\ now' = now + 1
    /\ UNCHANGED << run, environ, exc, files, idx, raw, canonical, errors_table, reported, faults,
                    frames, snapshot, classdef >>

\* validate_schema(df, table_schema, error_handler) and df.where(...).
validate_schema ==
    /\ pc = "bulk"
    /\ LET failure_cases == SchemaErrors(df, table_schema) IN
       IF failure_cases # << >>
       THEN /\ add_error(table_schema.name,
                         Message("Error validating schema for", table_schema.name, failure_cases))
            /\ events' = Append(events, Event("bulk", 0, "violations"))
       ELSE /\ no_error
            /\ events' = Append(events, Event("bulk", 0, "ok"))
    /\ df' = WhereNotnull(CoerceColumns(df, table_schema))
    /\ frames' = (table_name :> df') @@ frames
    /\ RowAfter(0)
    /\ now' = now + 1
    /\ UNCHANGED << run, environ, exc, files, raw, canonical, errors_table, reported, faults,
                    snapshot, classdef >>

\* Mutant: the insert into the raw table replaces the records it holds.
InsertRawReplacing(tbl, record) == << record >>

\* insert(table).values(payload=payload, timestamp=timestamp): one more record
\* in the raw table.
InsertRaw(tbl, record) == Append(tbl, record)

\* Mutant: a row whose archive write failed is skipped.
AfterArchiveGated(o) == IF o = "ok" THEN "validate" ELSE "skipped"

\* main() ignores how save_to_raw_data_table ended: validate_row_data is the
\* next statement.
AfterArchive(o) == "validate"

\* save_to_raw_data_table(row, raw_table, conn, error_handler): "raised" is a
\* statement or commit that raises. conn.execute returns a CursorResult, which
\* is always truthy, so "No rows inserted into raw table." is never raised.
save_to_raw_data_table ==
    /\ pc = "archive"
    /\ \E o \in Outcomes({"raised"}) :
         /\ Count(o)
         /\ IF o = "ok"
            THEN raw' = [raw EXCEPT ![RawName(table_name)] =
                            InsertRaw(@, [ payload   |-> AsDict(df.columns, df.rows[idx]),
                                           timestamp |-> now ])]
            ELSE raw' = raw
         /\ IF o = "ok"
            THEN no_error
            ELSE add_error(RawName(table_name),
                           Message("Error saving data to raw table", RawName(table_name), << >>))
         /\ events' = Append(events, Event("archive", idx, o))
         /\ pc' = AfterArchive(o)
    /\ now' = now + 1
    /\ UNCHANGED << run, environ, exc, ent, files, df, idx, canonical, errors_table, reported,
                    frames, snapshot, classdef >>

\* validate_row_data(row, table, table_schema, error_handler) and the branch
\* of main() on its result.
validate_row_data ==
    /\ pc = "validate"
    /\ IF RowKeyError(df.columns, table_schema)
       THEN /\ pc' = "raised"
            /\ exc' = "KeyError(column)"
            /\ no_error
            /\ events' = Append(events, Event("validate", idx, "keyerror"))
            /\ UNCHANGED << ent, idx >>
       ELSE LET error_fields == ErrorFields(df.columns, df.rows[idx], table_schema) IN
            /\ exc' = exc
            /\ IF error_fields # << >>
               THEN add_error(table_name,
                              Message("Invalid fields for columns in row",
                                      df.rows[idx][1].v, error_fields))
               ELSE no_error
            /\ IF RowIsValid(error_fields)
               THEN /\ events' = Append(events, Event("validate", idx, "valid"))
                    /\ pc' = "upsert"
                    /\ UNCHANGED << ent, idx >>
               ELSE /\ events' = Append(events, Event("validate", idx, "invalid"))
                    /\ NextRow
    /\ now' = now + 1
    /\ UNCHANGED << run, environ, files, df, raw, canonical, errors_table, reported, faults,
                    frames, snapshot, classdef >>

\* How the store answered the upsert of the current row in the first
\* execution, when it did not accept it: the second execution can get the
\* same answer again.
RejectedBefore ==
    { events[k].res : k \in { j \in DOMAIN events :
                                  /\ run = 2 /\ events[j].run = 1
                                  /\ events[j].op = "upsert" /\ events[j].res # "ok"
                                  /\ events[j].ent = ent /\ events[j].idx = idx } }

\* upsert_row(row, table, conn, error_handler): "raised" is a statement that
\* raises, "zero" a result with rowcount 0; neither is committed.
upsert_row ==
    /\ pc = "upsert"
    /\ \E o \in Outcomes({"raised", "zero"}) \cup RejectedBefore :
         /\ IF o \in RejectedBefore THEN faults' = faults ELSE Count(o)
         /\ IF o = "ok"
            THEN /\ canonical' = [canonical EXCEPT ![table_name] =
                                    UpsertStmt(@, PrimaryKey(table_name),
                                               AsDict(df.columns, df.rows[idx]))]
                 /\ no_error
            ELSE /\ canonical' = canonical
                 /\ add_error(table_name,
                              Message("Error inserting row", df.rows[idx][1].v, << >>))
         /\ events' = Append(events, Event("upsert", idx, o))
    /\ NextRow
    /\ now' = now + 1
    /\ UNCHANGED << run, environ, exc, files, df, raw, errors_table, reported, frames, snapshot, classdef >>

\* Mutant: every record is inserted twice.
InsertErrorsTwice(tbl, errs) == tbl \o errs \o errs

\* for e in self.errors: conn.execute(insert(self.errors_table).values(...)),
\* committed together.
InsertErrors(tbl, errs) == tbl \o errs

\* errorHandler.save_errors(conn) as main() calls it: one transaction for all
\* records; an exception is not caught and leaves main(). An empty list
\* executes no statement, so nothing can fail.
save_errors ==
    /\ pc = "flush"
    /\ \E o \in (IF errors # << >> THEN Outcomes({"raised"}) ELSE {"ok"}) :
         /\ Count(o)
         /\ IF o = "ok"
            THEN /\ errors_table' = (IF errors # << >> THEN InsertErrors(errors_table, errors)
                                     ELSE errors_table)
                 /\ pc' = "report"
                 /\ exc' = exc
            ELSE /\ errors_table' = errors_table
                 /\ pc' = FlushFailurePc
                 /\ exc' = (IF FlushFailurePc = "raised" THEN "flush" ELSE exc)
         /\ events' = Append(events, Event("flush", 0, o))
    /\ now' = now + 1
    /\ UNCHANGED << run, environ, ent, files, df, idx, errors, uuids, raw, canonical, reported,
                    frames, snapshot, classdef >>

\* main(), lines 80-81: the duration is logged.
Report ==
    /\ pc = "report"
    /\ reported' = TRUE
    /\ pc' = "done"
    /\ now' = now + 1
    /\ UNCHANGED << run, environ, exc, ent, files, df, idx, errors, uuids, raw, canonical,
                    errors_table, faults, events, frames, snapshot, classdef >>

\* The script is executed again on the same files and the same store: a new
\* process with a new errorHandler.
Rerun ==
    /\ pc \in {"done", "raised"}
    /\ run = 1
    /\ run' = 2
    /\ pc' = "start"
    /\ exc' = "none"
    /\ ent' = 0
    /\ df' = EmptyDataFrame
    /\ idx' = 0
    /\ errors' = << >>
    /\ reported' = FALSE
    /\ snapshot' = canonical
    /\ classdef' = now
    /\ now' = now + 1
    /\ UNCHANGED << environ, files, uuids, raw, canonical, errors_table, faults, events,
                    frames >>

Next ==
    \/ Startup
    \/ ReadCsv
    \/ CheckEmpty
    \/ validate_schema
    \/ save_to_raw_data_table
    \/ validate_row_data
    \/ upsert_row
    \/ save_errors
    \/ Report
    \/ Rerun

Spec == Init /\ [][Next]_vars

(* ------------------------------- claims ------------------------------- *)

EvTable(ev) == Entities[ev.ent]
EvColumns(ev) == frames[EvTable(ev)].columns
EvRow(ev) == frames[EvTable(ev)].rows[ev.idx]
EvDict(ev) == AsDict(EvColumns(ev), EvRow(ev))
EvKey(ev) == EvDict(ev)[PrimaryKey(EvTable(ev))]

SameRow(a, b) == a.run = b.run /\ a.ent = b.ent /\ a.idx = b.idx

Ended == pc \in {"done", "raised"}

\* The entities whose file the current execution loaded with data rows.
Loaded ==
    { e \in DOMAIN files :
        /\ ~ReadRaises(files[e]) /\ files[e].rows # << >>
        /\ \E k \in DOMAIN events :
             events[k].run = run /\ events[k].op = "read" /\ EvTable(events[k]) = e }

\* C1: a canonical upsert is performed for a row only right after Row
\* Validate returned "valid" for that row, and only for a row none of whose
\* values fails the column's type or nullability; every canonical record is
\* one the table held before or the row of such an upsert.
C1_UpsertOnlyIfValid ==
    /\ \A k \in DOMAIN events :
         events[k].op = "upsert" =>
           /\ k > 1
           /\ events[k - 1].op = "validate"
           /\ events[k - 1].res = "valid"
           /\ SameRow(events[k - 1], events[k])
           /\ ErrorFields(EvColumns(events[k]), EvRow(events[k]),
                          get_table_schemas[EvTable(events[k])]) = << >>
    /\ \A t \in DOMAIN canonical : \A key \in DOMAIN canonical[t] :
         \/ t = "products" /\ key \in DOMAIN OldP1 /\ canonical[t][key] = OldP1[key]
         \/ \E k \in DOMAIN events :
              /\ events[k].op = "upsert" /\ events[k].res = "ok"
              /\ EvTable(events[k]) = t
              /\ events[k - 1].res = "valid"
              /\ canonical[t][key] = EvDict(events[k])

\* A valid row was upserted and an invalid row of the same file was not.
C1_Witness ==
    /\ pc = "done"
    /\ \E k \in DOMAIN events : events[k].op = "upsert" /\ events[k].res = "ok"
    /\ \E k \in DOMAIN events :
         /\ events[k].op = "validate" /\ events[k].res = "invalid"
         /\ \A j \in DOMAIN events : events[j].op = "upsert" => ~SameRow(events[j], events[k])

ArchiveEvents(r, e, i) ==
    { k \in DOMAIN events :
        /\ events[k].op = "archive" /\ events[k].run = r
        /\ EvTable(events[k]) = e /\ events[k].idx = i }

\* What an archive attempt leaves behind: a committed raw record with the
\* row's payload, or an error record tagged with the raw table.
LeftBehind(k) ==
    \/ /\ events[k].res = "ok"
       /\ \E n \in DOMAIN raw[RawName(EvTable(events[k]))] :
            raw[RawName(EvTable(events[k]))][n].payload = EvDict(events[k])
    \/ /\ events[k].res # "ok"
       /\ events[k].run = run => \E n \in DOMAIN errors :
            errors[n].recordtype = RawName(EvTable(events[k]))

\* C2: when an execution has ended, every row of every dataset it loaded has
\* had exactly one archive-write attempt, and the attempt left a raw record
\* or an error record.
C2_EveryLoadedRowArchivedOnce ==
    Ended =>
      \A e \in Loaded : \A i \in DOMAIN files[e].rows :
        /\ Cardinality(ArchiveEvents(run, e, i)) = 1
        /\ \A k \in ArchiveEvents(run, e, i) : LeftBehind(k)

\* C3: a canonical write for a row is preceded, in the same execution, by an
\* archive attempt for that row.
C3_ArchiveBeforeUpsert ==
    \A k \in DOMAIN events :
      events[k].op = "upsert" =>
        \E j \in 1..(k - 1) : events[j].op = "archive" /\ SameRow(events[j], events[k])

\* Between the two writes: the current row is archived and valid, and the
\* canonical table holds no record with its key.
C3_Witness ==
    /\ pc = "upsert"
    /\ \E k \in ArchiveEvents(run, table_name, idx) : events[k].res = "ok"
    /\ df.rows[idx][ColIndex(df, PrimaryKey(table_name))] \notin DOMAIN canonical[table_name]

OkUpserts == { k \in DOMAIN events : events[k].op = "upsert" /\ events[k].res = "ok" }

\* C4: the row of the last successful upsert of a key is the one record the
\* canonical table holds for that key, column by column.
C4_LastWriteWins ==
    \A k \in OkUpserts :
      (\A j \in OkUpserts :
         j > k => ~(EvTable(events[j]) = EvTable(events[k]) /\ EvKey(events[j]) = EvKey(events[k])))
      => /\ EvKey(events[k]) \in DOMAIN canonical[EvTable(events[k])]
         /\ canonical[EvTable(events[k])][EvKey(events[k])] = EvDict(events[k])

\* Two rows with the same key and different quantities were upserted in one
\* execution, both were archived, and the record holds the later quantity.
C4_Witness ==
    /\ pc = "done"
    /\ \E j, k \in OkUpserts :
         /\ j < k /\ events[j].run = events[k].run /\ events[j].ent = events[k].ent
         /\ EvKey(events[j]) = EvKey(events[k])
         /\ EvDict(events[j]).quantity # EvDict(events[k]).quantity
         /\ canonical[EvTable(events[k])][EvKey(events[k])].quantity = EvDict(events[k]).quantity
         /\ Len(raw[RawName(EvTable(events[k]))]) >= 2

FailedUpserts == { k \in DOMAIN events : events[k].op = "upsert" /\ events[k].res # "ok" }

\* The answers of the store to the upserts of execution r, in order.
UpsertAnswers(r) ==
    LET isUpsert(ev) == ev.run = r /\ ev.op = "upsert"
        ups == SelectSeq(events, isUpsert)
    IN  [ n \in DOMAIN ups |-> [ent |-> ups[n].ent, idx |-> ups[n].idx, res |-> ups[n].res] ]

\* C5: when the second execution on the same files has ended, and the store
\* answered its upserts as it answered those of the first execution, the
\* canonical tables are what they were when the first execution ended: the
\* same keys, each with the same record.
C5_RerunSameState ==
    (run = 2 /\ Ended /\ UpsertAnswers(2) = UpsertAnswers(1)) =>
      /\ DOMAIN canonical.products = DOMAIN snapshot.products
      /\ DOMAIN canonical.orders = DOMAIN snapshot.orders
      /\ canonical = snapshot

\* Both executions upserted two rows with the same key, the store rejected
\* one of the two in both executions and accepted the other, and the second
\* execution left the table as the first did.
C5_Witness ==
    /\ run = 2 /\ pc = "done"
    /\ UpsertAnswers(2) = UpsertAnswers(1)
    /\ Len(UpsertAnswers(1)) = 2
    /\ \E k \in FailedUpserts : events[k].run = 1
    /\ \E j, k \in OkUpserts : events[j].run = 1 /\ events[k].run = 2
    /\ canonical = snapshot
    /\ canonical.products # EmptyTable

RunEvents == { k \in DOMAIN events : events[k].run = run }

\* The failures of the five kinds: a load that gave no data, a bulk
\* validation with violations, an invalid row, a failed archive write, a
\* failed upsert.
IsFailure(ev) ==
    \/ ev.op = "nodata"
    \/ ev.op = "bulk" /\ ev.res = "violations"
    \/ ev.op = "validate" /\ ev.res = "invalid"
    \/ ev.op = "archive" /\ ev.res # "ok"
    \/ ev.op = "upsert" /\ ev.res # "ok"

Failures == { k \in RunEvents : IsFailure(events[k]) }

ReadErrors == { k \in RunEvents : events[k].op = "read" /\ events[k].res = "raised" }

\* The record types one step adds to the ledger.
TypesOf(ev) ==
    CASE ev.op = "read" /\ ev.res = "raised"   -> << FilePath(EvTable(ev)) >>
      [] ev.op = "archive" /\ ev.res # "ok"    -> << RawName(EvTable(ev)) >>
      [] IsFailure(ev) /\ ev.op # "archive"    -> << EvTable(ev) >>
      [] OTHER                                 -> << >>

RECURSIVE TypesUpTo(_)
TypesUpTo(k) ==
    IF k = 0 THEN << >>
    ELSE TypesUpTo(k - 1) \o (IF events[k].run = run THEN TypesOf(events[k]) ELSE << >>)

\* A row of a loaded dataset with a null value in a column declared
\* non-nullable, or with a value that is not null and not of the declared type.
NullOrMistyped(e, i) ==
    \E c \in Range(get_table_schemas[e].columns) :
      /\ c.name \in Range(frames[e].columns)
      /\ LET val == frames[e].rows[i][ColIndex(frames[e], c.name)] IN
           \/ isnull(val) /\ ~c.nullable
           \/ ~isnull(val) /\ val.t # c.type

\* The Row Validate steps of this execution on a row that has a null value
\* in a non-nullable column or a value of another type than the declared one.
RowSchemaFailures ==
    { k \in RunEvents :
        /\ events[k].op = "validate"
        /\ NullOrMistyped(EvTable(events[k]), events[k].idx) }

\* C6: the ledger holds one record per failure: per load that gave no data,
\* per bulk validation with violations, per Row Validate of a row with a
\* null or mistyped value, per failed archive write and per failed upsert.
\* The record read_csv adds for a file it cannot read, besides the
\* "No data found" record of that load, is not counted as a breach.
C6_OneRecordPerFailure ==
    Len(errors) =
        Cardinality({ k \in Failures : events[k].op # "validate" })
      + Cardinality(RowSchemaFailures)
      + Cardinality(ReadErrors)

\* The entities whose file the current execution has read and tested for
\* emptiness.
Tested ==
    { e \in DOMAIN files :
        /\ \E k \in RunEvents : events[k].op = "read" /\ EvTable(events[k]) = e
        /\ ~(pc = "check" /\ table_name = e) }

NoData(e) == ReadRaises(files[e]) \/ files[e].rows = << >>

\* The ledger's records that relate to an entity: tagged with its table, its
\* raw table or its file.
RecordsAbout(e) ==
    { n \in DOMAIN errors : errors[n].recordtype \in {e, RawName(e), FilePath(e)} }

CanonicalWrites(e) ==
    { k \in RunEvents : events[k].op = "upsert" /\ EvTable(events[k]) = e }

\* C7 as stated: an empty or unreadable file gives exactly one error record
\* for the entity and no canonical write.
C7_NoDataOneRecord ==
    \A e \in Tested :
      NoData(e) => Cardinality(RecordsAbout(e)) = 1 /\ CanonicalWrites(e) = {}

\* C7 amended: a file with a header and no rows gives exactly one record,
\* "No data found", tagged with the entity; a file that cannot be read gives
\* that record and, before it, one tagged with the file path; no canonical
\* write is made in either case.
C7_NoDataRecords ==
    \A e \in Tested :
      NoData(e) =>
        /\ CanonicalWrites(e) = {}
        /\ Cardinality({ n \in RecordsAbout(e) :
                           /\ errors[n].recordtype = e
                           /\ errors[n].errors.text = "No data found in CSV file." }) = 1
        /\ Cardinality(RecordsAbout(e)) = (IF ReadRaises(files[e]) THEN 2 ELSE 1)
        /\ ReadRaises(files[e]) =>
             \E m, n \in RecordsAbout(e) :
               /\ m < n
               /\ errors[m].recordtype = FilePath(e)
               /\ errors[m].errors.text = "Error reading CSV file"
               /\ errors[n].recordtype = e

\* One entity's file could not be read and the other's had only a header.
C7_Witness ==
    /\ pc = "done"
    /\ \E e1, e2 \in Tested :
         /\ ReadRaises(files[e1])
         /\ files[e2].status = "text" /\ files[e2].rows = << >>

FlushEvents == { k \in RunEvents : events[k].op = "flush" }

RowSteps(e, i, op) ==
    { k \in RunEvents : events[k].op = op /\ EvTable(events[k]) = e /\ events[k].idx = i }

\* C8: when an execution in which a failure of the five kinds occurred has
\* ended, every entity was read, every row of every loaded dataset was
\* archived and validated, and the flush was reached.
C8_FailureNeverAborts ==
    (Ended /\ Failures # {}) =>
      /\ FlushEvents # {}
      /\ \A n \in DOMAIN Entities :
           \E k \in RunEvents : events[k].op = "read" /\ events[k].ent = n
      /\ \A e \in Loaded : \A i \in DOMAIN files[e].rows :
           RowSteps(e, i, "archive") # {} /\ RowSteps(e, i, "validate") # {}

\* C9: an execution that got past startup and has ended invoked the flush
\* exactly once; no execution flushes twice, and none takes a step on a file
\* or a row after its flush.
C9_FlushExactlyOnceAtTheEnd ==
    /\ Cardinality(FlushEvents) <= 1
    /\ \A k \in FlushEvents : \A j \in RunEvents : j <= k
    /\ (Ended /\ exc # "KeyError(environ)") => Cardinality(FlushEvents) = 1

\* C10: a flush that fails ends main() with the exception of the flush: it
\* is the last step, nothing of the ledger is committed, and the ledger holds
\* no record for it.
C10_FlushFailurePropagates ==
    \A k \in FlushEvents :
      events[k].res = "raised" =>
        /\ pc = "raised"
        /\ exc = "flush"
        /\ k = Len(events)
        /\ Len(errors) = Len(TypesUpTo(k - 1))
        /\ \A m \in DOMAIN errors_table : \A n \in DOMAIN errors :
             errors_table[m].recordid # errors[n].recordid

\* The flush of a non-empty ledger failed.
C10_Witness ==
    /\ \E k \in FlushEvents : events[k].res = "raised"
    /\ errors # << >>
    /\ exc = "flush"

\* C11: when an execution has ended, every row of a loaded dataset that has a
\* null value in a non-nullable column or a value of another type than the
\* declared one was found invalid once (one row-schema error record), was
\* never upserted, and had exactly one archive-write attempt.
C11_BadRowLoggedArchivedNotUpserted ==
    Ended =>
      \A e \in Loaded : \A i \in DOMAIN files[e].rows :
        NullOrMistyped(e, i) =>
          /\ Cardinality({ k \in RowSteps(e, i, "validate") : events[k].res = "invalid" }) = 1
          /\ RowSteps(e, i, "upsert") = {}
          /\ Cardinality(RowSteps(e, i, "archive")) = 1

\* The value row i of the dataset of e holds in the declared column c.
Value(e, i, c) == frames[e].rows[i][ColIndex(frames[e], c.name)]

\* The declared columns of e in which row i is neither null-and-nullable nor
\* of exactly the declared type; a column the row lacks fails.
FailingColumns(e, i) ==
    { c \in Range(get_table_schemas[e].columns) :
        \/ c.name \notin Range(frames[e].columns)
        \/ ~ \/ isnull(Value(e, i, c)) /\ c.nullable
             \/ Value(e, i, c).t = c.type }

ValidateEvents == { k \in RunEvents : events[k].op = "validate" }

RowRecords ==
    { n \in DOMAIN errors : errors[n].errors.text = "Invalid fields for columns in row" }

\* C12: every Row Validate of the execution returned "valid" or "invalid",
\* "valid" exactly when no declared column fails; the ledger holds one
\* row-schema record per "invalid", and the record of an invalid row lists
\* its failing (column, value) pairs and no other.
C12_RowValidateExact ==
    /\ \A k \in ValidateEvents :
         /\ events[k].res \in {"valid", "invalid"}
         /\ events[k].res = "valid" <=> FailingColumns(EvTable(events[k]), events[k].idx) = {}
         /\ events[k].res = "invalid" =>
              \E n \in RowRecords :
                /\ errors[n].recordtype = EvTable(events[k])
                /\ errors[n].errors.arg = EvRow(events[k])[1].v
                /\ Range(errors[n].errors.fields) =
                     { [col |-> c.name, val |-> Value(EvTable(events[k]), events[k].idx, c)] :
                         c \in FailingColumns(EvTable(events[k]), events[k].idx) }
    /\ Cardinality(RowRecords) =
         Cardinality({ k \in ValidateEvents : events[k].res = "invalid" })

BulkEvents == { k \in RunEvents : events[k].op = "bulk" }

BulkRecords(e) ==
    { n \in DOMAIN errors :
        /\ errors[n].errors.text = "Error validating schema for"
        /\ errors[n].recordtype = e }

\* C13: a bulk validation without violation adds no error record, one with
\* violations adds exactly one, tagged with the descriptor's name and naming
\* the failing constraints; and when the execution has ended, every row of a
\* dataset that was validated in bulk was archived and row-validated, and
\* upserted if it was found valid.
C13_BulkValidationAdvisory ==
    /\ \A k \in BulkEvents :
         LET e == EvTable(events[k]) IN
         /\ events[k].res = "ok" => BulkRecords(e) = {}
         /\ events[k].res = "violations" =>
              /\ Cardinality(BulkRecords(e)) = 1
              /\ \A n \in BulkRecords(e) :
                   errors[n].errors.arg = get_table_schemas[e].name
                   /\ errors[n].errors.fields # << >>
    /\ Ended =>
         \A k \in BulkEvents : \A i \in DOMAIN frames[EvTable(events[k])].rows :
           LET e == EvTable(events[k]) IN
           /\ Cardinality(RowSteps(e, i, "archive")) = 1
           /\ Cardinality(RowSteps(e, i, "validate")) = 1
           /\ \A v \in RowSteps(e, i, "validate") :
                /\ events[v].res \in {"valid", "invalid"}
                /\ events[v].res = "valid" <=> RowSteps(e, i, "upsert") # {}

\* C14: when an execution that got past startup has ended, whatever its
\* outcome, a failed flush included, it has logged its duration.
C14_DurationAlwaysReported == (Ended /\ exc # "KeyError(environ)") => reported

\* C15: when a variable of the environment is missing, main() ends at startup
\* with the KeyError: no file is read, no step is taken on a file or a row,
\* the ledger is empty, and the raw, canonical and errors tables are as they
\* were before the execution.
C15_MissingVariableFatal ==
    ~environ =>
      /\ pc \in {"start", "raised"}
      /\ pc = "raised" => exc = "KeyError(environ)"
      /\ files = << >> /\ events = << >>
      /\ errors = << >> /\ uuids = 0
      /\ \A n \in DOMAIN raw : raw[n] = << >>
      /\ errors_table = << >>
      /\ canonical.orders = EmptyTable /\ canonical.products \in {EmptyTable, OldP1}

\* The second execution, like the first, ended at startup with the KeyError;
\* the canonical table still holds the record it held before.
C15_Witness ==
    /\ ~environ /\ run = 2 /\ pc = "raised" /\ exc = "KeyError(environ)"
    /\ canonical.products = OldP1

\* C16: the errors table changes only in a flush of a non-empty ledger that
\* succeeds, and then every record of the ledger is appended to it once, in
\* the order of the ledger; a flush that fails commits none of them, and a
\* flush of an empty ledger leaves the table as it was.
C16_FlushFaithful ==
    [][ /\ errors_table' # errors_table =>
             /\ pc = "flush" /\ pc' = "report"
             /\ errors # << >>
             /\ errors_table' = errors_table \o errors
        /\ (pc = "flush" /\ pc' = "report" /\ errors # << >>) =>
             errors_table' = errors_table \o errors
        /\ (pc = "flush" /\ pc' = "raised") => errors_table' = errors_table
        /\ (pc = "flush" /\ errors = << >>) => errors_table' = errors_table
      ]_vars

\* The first execution saved a ledger with records, the second an empty one.
C16_Witness ==
    /\ run = 2 /\ pc = "done"
    /\ errors = << >>
    /\ errors_table # << >>
    /\ Cardinality({ k \in DOMAIN events : events[k].op = "flush" /\ events[k].res = "ok" }) = 2

\* C17: after a flush that succeeded the ledger holds no error record.
C17_DrainedAfterFlush ==
    (\E k \in FlushEvents : events[k].res = "ok") => errors = << >>

IsPrefix(s, t) == Len(s) <= Len(t) /\ SubSeq(t, 1, Len(s)) = s

\* C18: every step leaves the records a raw table holds in place, unchanged
\* (it can only append); the archive step, successful or not, leaves the
\* canonical tables unchanged, and the upsert step, successful or not, leaves
\* the raw tables unchanged.
C18_ArchiveAppendOnlyDisjoint ==
    [][ /\ \A n \in DOMAIN raw : IsPrefix(raw[n], raw'[n])
        /\ pc = "archive" => canonical' = canonical
        /\ pc = "upsert" => raw' = raw
      ]_vars

\* An execution ended that archived two rows of a file and upserted one, and
\* in which a write failed.
C18_Witness ==
    /\ pc = "done"
    /\ Len(raw["raw_products"]) >= 2
    /\ canonical.products # EmptyTable
    /\ OkUpserts # {}
    /\ \E k \in DOMAIN events : events[k].op \in {"archive", "upsert"} /\ events[k].res # "ok"

\* C19: the step after an archive attempt, failed or not, is the Row Validate
\* of the same row, and the step after a Row Validate that returned "valid"
\* is the upsert of the same row.
C19_ArchiveDoesNotGateUpsert ==
    \A k \in DOMAIN events :
      /\ events[k].op = "archive" =>
           IF k = Len(events) THEN pc = "validate"
           ELSE events[k + 1].op = "validate" /\ SameRow(events[k], events[k + 1])
      /\ (events[k].op = "validate" /\ events[k].res = "valid") =>
           IF k = Len(events) THEN pc = "upsert"
           ELSE events[k + 1].op = "upsert" /\ SameRow(events[k], events[k + 1])

\* An execution ended in which the archive write of a row failed and its
\* upsert succeeded: the canonical table holds the row, no raw record has
\* its payload, and the ledger holds the record of the failed archive write.
C19_Witness ==
    /\ run = 1 /\ pc = "done"
    /\ \E a, u \in RunEvents :
         /\ events[a].op = "archive" /\ events[a].res = "raised"
         /\ events[u].op = "upsert" /\ events[u].res = "ok"
         /\ SameRow(events[a], events[u])
         /\ canonical[EvTable(events[u])][EvKey(events[u])] = EvDict(events[u])
         /\ \A n \in DOMAIN raw[RawName(EvTable(events[u]))] :
              raw[RawName(EvTable(events[u]))][n].payload # EvDict(events[u])
         /\ \E n \in DOMAIN errors : errors[n].recordtype = RawName(EvTable(events[u]))

\* C20: every record of the ledger carries the timestamp taken when the
\* errorRecord class was defined in this process: the timestamps of any two
\* records are equal, whatever the clock showed when they were added.
C20_OneTimestampPerRun ==
    /\ \A m, n \in DOMAIN errors : errors[m].timestamp = errors[n].timestamp
    /\ \A n \in DOMAIN errors : errors[n].timestamp = classdef /\ errors[n].timestamp < now

\* The second execution added records at two different steps, and the first
\* saved records that carry another timestamp.
C20_Witness ==
    /\ run = 2 /\ pc = "done"
    /\ Len(errors) >= 2
    /\ Cardinality({ k \in RunEvents : TypesOf(events[k]) # << >> }) >= 2
    /\ \E n \in DOMAIN errors_table : errors_table[n].timestamp # errors[1].timestamp

====
